---- MODULE Spec2Model ----
(***************************************************************************)
(* A model of the greenlight API's data layer and start-up code:           *)
(*   - internal/data/movies.go      MovieModel (Insert, Get, Update,       *)
(*                                  Delete) over the movies table;         *)
(*   - package data, permissions    Permissions.Include and                *)
(*                                  PermissionModel (GetAllForUser,        *)
(*                                  AddForUser);                           *)
(*   - cmd/api/main.go              main and openDB.                       *)
(* Every MovieModel method issues one SQL statement, which the database    *)
(* executes atomically; concurrency between requests is the interleaving   *)
(* of these statements, with every caller holding its own Movie struct.    *)
(***************************************************************************)
EXTENDS Integers, Sequences, FiniteSets, TLC

\* The movies table and the callers of the MovieModel.
VARIABLES
    movies,     \* the movies table: a function from the ids of its rows to rows
    nextID,     \* the next value of the id sequence (bigserial)
    movie,      \* movie[c]: the Movie struct caller c holds
    last,       \* the latest call: who made it and what it returned
    updates,    \* updates[id]: the Updates of row id that returned nil (history)
    deletes     \* deletes[id]: the Deletes of id that returned nil (history)

\* The permission tables and the caller of the PermissionModel.
VARIABLES
    usersPermissions,   \* the users_permissions table: rows <<user_id, permission_id>>
    perms,              \* the Permissions slice the caller holds: [isNil, elems]
    plast,              \* the latest call on Permissions / PermissionModel
    granted             \* granted[u]: codes AddForUser has joined to u (history)

\* The process: main's position and locals.
VARIABLES
    pc,         \* where main is
    cfg,        \* the Config the flags fill in
    db,         \* the connection pool: "none", "open", "pinged" or "closed"
    openErr,    \* what openDB returned
    serve,      \* app.Serve(): "no" (not called), "running" or "returned"
    serveErr,   \* what app.Serve() returned
    exitCode    \* the process's exit status; Running while it runs

\* Storage calls in flight against a database that may never answer.
VARIABLES
    dbAnswers,  \* whether the database answers statements
    calls       \* calls[g]: the storage call goroutine g is in

movieVars == <<movies, nextID, movie, last, updates, deletes>>
permVars == <<usersPermissions, perms, plast, granted>>
mainVars == <<pc, cfg, db, openErr, serve, serveErr, exitCode>>
callVars == <<dbAnswers, calls>>
vars == <<movieVars, permVars, mainVars, callVars>>

notMovie == <<permVars, mainVars, callVars>>
notPerm == <<movieVars, mainVars, callVars>>
notMain == <<movieVars, permVars, callVars>>
notCall == <<movieVars, permVars, mainVars>>

\* ------------------------------------------------------------------ bounds
\* Ids the movies_id_seq sequence hands out before the model stops inserting.
MaxID == 2
\* Updates the stored rows carry, in total, before the model stops updating.
MaxUpdates == 2

\* The concurrent callers of the MovieModel (two request goroutines).
Clients == {1, 2}
\* The ids callers present: 0 stands for every id < 1.
IDs == 0..MaxID

\* ------------------------------------------------------------- data types
\* Field values a caller writes (title, year, runtime, genres); both pass
\* ValidateMovie.
MovieInputs ==
    { [title |-> "Casablanca", year |-> 1942, runtime |-> 102,
       genres |-> <<"drama", "romance", "war">>],
      [title |-> "Moana", year |-> 2016, runtime |-> 107,
       genres |-> <<"animation", "adventure">>] }

\* The zero value of the Movie struct (CreatedAt is left out: no claim reads it).
ZeroMovie ==
    [ID |-> 0, Title |-> "", Year |-> 0, Runtime |-> 0, Genres |-> <<>>,
     Version |-> 0]

\* The absence of a row (no stored row has version 0).
NoRow == [title |-> "", year |-> 0, runtime |-> 0, genres |-> <<>>, version |-> 0]

\* Error values the MovieModel returns.
ErrNil == "nil"
ErrRecordNotFound == "record not found"
SqlErrNoRows == "sql: no rows in result set"

\* The updates the rows of table t carry: a row at version v has had v - 1.
RECURSIVE UpdatesIn(_, _)
UpdatesIn(t, ids) ==
    IF ids = {} THEN 0
    ELSE LET i == CHOOSE x \in ids : TRUE
         IN (t[i].version - 1) + UpdatesIn(t, ids \ {i})

\* The row stored under id, or NoRow.
RowOf(t, id) == IF id \in DOMAIN t THEN t[id] ELSE NoRow

\* What is observed of a call: the caller, the method, the id it named, the
\* error it returned, the Version the struct it passed held, the version of the
\* named row before and after the call (0: no such row), whether the named row
\* is as it was (same), and whether every other row is as it was (frame).
Observed(c, op, id, err, presented, t, u) ==
    [c |-> c, op |-> op, id |-> id, err |-> err, presented |-> presented,
     pre |-> RowOf(t, id).version, post |-> RowOf(u, id).version,
     same |-> RowOf(t, id) = RowOf(u, id),
     frame |-> \A i \in (DOMAIN t \cup DOMAIN u) \ {id} : RowOf(t, i) = RowOf(u, i)]

NoCall == Observed(0, "none", 0, ErrNil, 0, <<>>, <<>>)

MovieInit ==
    /\ movies = <<>>
    /\ nextID = 1
    /\ movie = [c \in Clients |-> ZeroMovie]
    /\ last = NoCall
    /\ updates = <<>>
    /\ deletes = [id \in 1..MaxID |-> 0]

\* ------------------------------------------------------ MovieModel.Insert
\* VALUES ($1, $2, $3, $4): the inserted row; version takes the column's
\* default, 1.
InsertValues(m) ==
    [title |-> m.Title, year |-> m.Year, runtime |-> m.Runtime,
     genres |-> m.Genres, version |-> 1]

Insert(c, in) ==
    /\ nextID <= MaxID
    /\ LET m   == [ZeroMovie EXCEPT !.Title = in.title, !.Year = in.year,
                                    !.Runtime = in.runtime, !.Genres = in.genres]
           id  == nextID
           row == InsertValues(m)
       IN /\ movies' = [i \in DOMAIN movies \cup {id} |->
                            IF i = id THEN row ELSE movies[i]]
          /\ nextID' = nextID + 1
          \* RETURNING id, created_at, version, scanned into the struct
          /\ movie' = [movie EXCEPT ![c] = [m EXCEPT !.ID = id,
                                                     !.Version = row.version]]
          /\ last' = Observed(c, "Insert", id, ErrNil, 0, movies, movies')
          /\ updates' = [i \in DOMAIN movies' |-> IF i = id THEN 0 ELSE updates[i]]
          /\ UNCHANGED <<deletes, notMovie>>

\* --------------------------------------------------------- MovieModel.Get
\* WHERE id = $1 of the SELECT.
GetWhere(t, id) == id \in DOMAIN t

Get(c, id) ==
    /\ UNCHANGED <<movies, nextID, updates, deletes, notMovie>>
    /\ IF id < 1
       THEN /\ last' = Observed(c, "Get", id, ErrRecordNotFound, 0, movies, movies')
            /\ UNCHANGED movie
       ELSE IF GetWhere(movies, id)
       THEN LET row == movies[id]
            IN /\ movie' = [movie EXCEPT ![c] =
                               [ID |-> id, Title |-> row.title, Year |-> row.year,
                                Runtime |-> row.runtime, Genres |-> row.genres,
                                Version |-> row.version]]
               /\ last' = Observed(c, "Get", id, ErrNil, 0, movies, movies')
       ELSE \* sql.ErrNoRows is translated
            /\ last' = Observed(c, "Get", id, ErrRecordNotFound, 0, movies, movies')
            /\ UNCHANGED movie

\* ------------------------------------------------------ MovieModel.Update
\* WHERE id = $5 of the UPDATE: the row's id alone selects it.
UpdateWhere(t, m) == m.ID \in DOMAIN t

\* An UPDATE whose SET clause leaves the version column out.
UpdateSetKeepsVersion(row, m) ==
    [title |-> m.Title, year |-> m.Year, runtime |-> m.Runtime,
     genres |-> m.Genres, version |-> row.version]

\* SET title = $1, year = $2, runtime = $3, genres = $4, version = version + 1
UpdateSet(row, m) ==
    [title |-> m.Title, year |-> m.Year, runtime |-> m.Runtime,
     genres |-> m.Genres, version |-> row.version + 1]

\* The caller passes a struct it got from Insert or Get, with the new field
\* values put into it.
Update(c, in) ==
    LET m == [movie[c] EXCEPT !.Title = in.title, !.Year = in.year,
                              !.Runtime = in.runtime, !.Genres = in.genres]
    IN /\ m.ID >= 1
       /\ UpdatesIn(movies, DOMAIN movies) < MaxUpdates
       /\ UNCHANGED <<nextID, deletes, notMovie>>
       /\ IF UpdateWhere(movies, m)
          THEN LET row == UpdateSet(movies[m.ID], m)
               IN /\ movies' = [movies EXCEPT ![m.ID] = row]
                  \* RETURNING version, scanned into movie.Version
                  /\ movie' = [movie EXCEPT ![c] = [m EXCEPT !.Version = row.version]]
                  /\ last' = Observed(c, "Update", m.ID, ErrNil, m.Version,
                                       movies, movies')
                  /\ updates' = [updates EXCEPT ![m.ID] = @ + 1]
          ELSE \* no row is returned: Scan's sql.ErrNoRows is returned as it is
               /\ UNCHANGED <<movies, updates>>
               /\ movie' = [movie EXCEPT ![c] = m]
               /\ last' = Observed(c, "Update", m.ID, SqlErrNoRows, m.Version,
                                      movies, movies')

\* ------------------------------------------------------ MovieModel.Delete
\* A DELETE whose WHERE clause reads id <= $1.
DeleteWhereUpTo(t, id) == [i \in {x \in DOMAIN t : x > id} |-> t[i]]

\* DELETE FROM movies WHERE id = $1: the table without the rows it matches.
DeleteWhere(t, id) == [i \in DOMAIN t \ {id} |-> t[i]]

\* result.RowsAffected()
RowsAffected(t, id) == Cardinality(DOMAIN t) - Cardinality(DOMAIN DeleteWhere(t, id))

\* A Delete that does not look at the number of rows affected.
DeleteResultUnchecked(rowsAffected) == ErrNil

\* if rowsAffected == 0 { return ErrRecordNotFound }; return nil
DeleteResult(rowsAffected) ==
    IF rowsAffected = 0 THEN ErrRecordNotFound ELSE ErrNil

Delete(c, id) ==
    /\ UNCHANGED <<nextID, movie, notMovie>>
    /\ IF id < 1
       THEN /\ UNCHANGED <<movies, updates, deletes>>
            /\ last' = Observed(c, "Delete", id, ErrRecordNotFound, 0, movies, movies')
       ELSE /\ movies' = DeleteWhere(movies, id)
            /\ last' = Observed(c, "Delete", id,
                                DeleteResult(RowsAffected(movies, id)),
                                0, movies, movies')
            /\ updates' = [i \in DOMAIN movies' |-> updates[i]]
            /\ deletes' = IF last'.err = ErrNil
                          THEN [deletes EXCEPT ![id] = @ + 1] ELSE deletes

\* ================================================================== permissions
\* Longest Permissions slice a caller starts with.
MaxLen == 3

\* The rows of the users table (ids) and the user ids callers pass; 3 is the
\* id of no user.
Users == {1, 2}
UserIDs == {1, 2, 3}

\* The rows of the permissions table, and the codes callers pass;
\* "movies:admin" is the code of no permission.
PermissionRows ==
    { [id |-> 1, code |-> "movies:read"], [id |-> 2, code |-> "movies:write"] }
Codes == {"movies:read", "movies:write", "movies:admin"}

ErrForeignKey == "pq: violates foreign key constraint"
ErrUniqueKey == "pq: duplicate key value violates unique constraint"

\* Permissions{} and append(permissions, permission)
EmptyPermissions == [isNil |-> FALSE, elems |-> <<>>]
NilPermissions == [isNil |-> TRUE, elems |-> <<>>]
AppendPermission(ps, code) == [isNil |-> FALSE, elems |-> Append(ps.elems, code)]

\* The slices of at most n codes.
RECURSIVE SlicesUpTo(_)
SlicesUpTo(n) ==
    IF n = 0 THEN {<<>>}
    ELSE LET shorter == SlicesUpTo(n - 1)
         IN shorter \cup {Append(q, c) : q \in {x \in shorter : Len(x) = n - 1}, c \in Codes}

NoPermCall == [op |-> "none", user |-> 0, code |-> "", err |-> ErrNil,
               found |-> FALSE, others |-> TRUE]

\* A caller may hold any Permissions value: the type is a plain []string.
PermInit ==
    /\ usersPermissions = {}
    /\ perms \in {NilPermissions} \cup
                 {[isNil |-> FALSE, elems |-> q] : q \in SlicesUpTo(MaxLen)}
    /\ plast = NoPermCall
    /\ granted = [u \in UserIDs |-> {}]

\* The permission tables at rest, for the specifications of other components.
PermIdle ==
    /\ usersPermissions = {}
    /\ perms = EmptyPermissions
    /\ plast = NoPermCall
    /\ granted = [u \in UserIDs |-> {}]

\* ---------------------------------------------------- Permissions.Include
\* A scan that begins at the second element.
RECURSIVE IncludeSkipsFirst(_, _, _)
IncludeSkipsFirst(ps, code, i) ==
    IF i + 1 > Len(ps)
    THEN FALSE
    ELSE IF code = ps[i + 1] THEN TRUE ELSE IncludeSkipsFirst(ps, code, i + 1)

\* for i := range p { if code == p[i] { return true } }; return false,
\* from index i on (1-based).
RECURSIVE IncludeFrom(_, _, _)
IncludeFrom(ps, code, i) ==
    IF i > Len(ps)
    THEN FALSE
    ELSE IF code = ps[i] THEN TRUE ELSE IncludeFrom(ps, code, i + 1)

Include(ps, code) == IncludeFrom(ps.elems, code, 1)

CallInclude(code) ==
    /\ plast' = [op |-> "Include", user |-> 0, code |-> code, err |-> ErrNil,
                 found |-> Include(perms, code), others |-> TRUE]
    /\ UNCHANGED <<usersPermissions, perms, granted, notPerm>>

\* ------------------------------------------- PermissionModel.GetAllForUser
\* A query without its WHERE clause.
JoinRowsOfAnyUser(t, userID) ==
    { [user |-> j[1], code |-> j[3].code] :
        j \in { x \in Users \X t \X PermissionRows :
                  /\ x[1] = x[2][1]
                  /\ x[2][2] = x[3].id } }

\* FROM users u INNER JOIN users_permissions up ON u.id = up.user_id
\* INNER JOIN permissions p ON up.permission_id = p.id WHERE u.id = $1
JoinRows(t, userID) ==
    { [user |-> j[1], code |-> j[3].code] :
        j \in { x \in Users \X t \X PermissionRows :
                  /\ x[1] = x[2][1]
                  /\ x[2][2] = x[3].id
                  /\ x[1] = userID } }

\* The orders in which the query may return a set of rows (it has no ORDER BY).
RowOrders(rows) ==
    { q \in [1..Cardinality(rows) -> rows] :
        \A i, j \in 1..Cardinality(rows) : i # j => q[i] # q[j] }

\* for rows.Next() { rows.Scan(&permission); permissions = append(permissions, permission) }
RECURSIVE ScanRows(_, _, _)
ScanRows(ps, q, i) ==
    IF i > Len(q) THEN ps
    ELSE ScanRows(AppendPermission(ps, q[i].code), q, i + 1)

GetAllForUser(userID) ==
    /\ \E q \in RowOrders(JoinRows(usersPermissions, userID)) :
          perms' = ScanRows(EmptyPermissions, q, 1)
    /\ plast' = [op |-> "GetAllForUser", user |-> userID, code |-> "",
                 err |-> ErrNil, found |-> FALSE, others |-> TRUE]
    /\ UNCHANGED <<usersPermissions, granted, notPerm>>

\* ---------------------------------------------- PermissionModel.AddForUser
\* SELECT $1, permissions.id FROM permissions WHERE permissions.code = ANY($2)
SelectedRows(userID, codes) ==
    { <<userID, r.id>> : r \in {x \in PermissionRows : x.code \in codes} }

\* The constraints of users_permissions: user_id references users, and
\* (user_id, permission_id) is its key.
InsertViolation(t, rows) ==
    IF \E r \in rows : r[1] \notin Users THEN ErrForeignKey
    ELSE IF rows \cap t # {} THEN ErrUniqueKey
    ELSE ErrNil

\* The codes joined to the users of table t.
JoinedCodes(t, u) == { r.code : r \in JoinRows(t, u) }

\* codes is the set of the strings passed: = ANY($2) reads nothing else of them.
AddForUser(userID, codes) ==
    LET rows == SelectedRows(userID, codes)
        err  == InsertViolation(usersPermissions, rows)
    IN /\ usersPermissions' = IF err = ErrNil THEN usersPermissions \cup rows
                              ELSE usersPermissions
       /\ plast' = [op |-> "AddForUser", user |-> userID, code |-> "",
                    err |-> err, found |-> FALSE,
                    others |-> \A v \in UserIDs \ {userID} :
                                  JoinedCodes(usersPermissions', v) =
                                  JoinedCodes(usersPermissions, v)]
       /\ granted' = IF err = ErrNil
                     THEN [granted EXCEPT ![userID] =
                              @ \cup {r.code : r \in {x \in PermissionRows : x.code \in codes}}]
                     ELSE granted
       /\ UNCHANGED <<perms, notPerm>>

\* ================================================================== process
\* Values the flags -limiter-rps and -limiter-burst are given (2 and 4 are the
\* defaults), and values of -db-max-idle-time.
RpsValues == {-1, 0, 2}
BurstValues == {-1, 0, 4}
IdleTimes == {"15m", "soon"}

\* time.ParseDuration accepts a number with a unit.
ValidDuration(d) == d \in {"15m"}

\* The exit status of a process that has not exited.
Running == -1

\* logger.PrintFatal writes the entry and ends the process with this status.
FatalStatus == 1
\* flag.Parse ends the process with this status on a flag it cannot parse.
FlagErrorStatus == 2

MainInit ==
    /\ pc = "loadEnv"
    /\ cfg = [rps |-> 2, burst |-> 4, enabled |-> TRUE, maxIdleTime |-> "15m"]
    /\ db = "none"
    /\ openErr = ErrNil
    /\ serve = "no"
    /\ serveErr = ErrNil
    /\ exitCode = Running

\* logger.PrintFatal(err, nil): the process ends here; deferred calls do not run.
PrintFatal ==
    /\ pc' = "exited"
    /\ exitCode' = FatalStatus

\* err := godotenv.Load(); if err != nil { logger.PrintFatal(...) }
LoadEnv(ok) ==
    /\ pc = "loadEnv"
    /\ IF ok THEN pc' = "parseFlags" /\ UNCHANGED exitCode
             ELSE PrintFatal
    /\ UNCHANGED <<cfg, db, openErr, serve, serveErr, notMain>>

\* The flag definitions, flag.Parse() and the -version exit.
ParseFlags(ok, rps, burst, enabled, idle, displayVersion) ==
    /\ pc = "parseFlags"
    /\ IF ~ok
       THEN pc' = "exited" /\ exitCode' = FlagErrorStatus /\ UNCHANGED cfg
       ELSE /\ cfg' = [rps |-> rps, burst |-> burst, enabled |-> enabled,
                       maxIdleTime |-> idle]
            /\ IF displayVersion
               THEN pc' = "exited" /\ exitCode' = 0
               ELSE pc' = "openDB" /\ UNCHANGED exitCode
    /\ UNCHANGED <<db, openErr, serve, serveErr, notMain>>

\* An openDB that returns the pool without looking at the ping's error.
openDBUnpinged(c, openOK, pingOK) ==
    IF ~openOK THEN [db |-> "none", err |-> "sql: unknown driver"]
    ELSE IF ~ValidDuration(c.maxIdleTime)
    THEN [db |-> "open", err |-> "time: invalid duration"]
    ELSE IF ~pingOK THEN [db |-> "open", err |-> ErrNil]
    ELSE [db |-> "pinged", err |-> ErrNil]

\* openDB(cfg): the state of the pool it leaves and the error it returns.
\* openOK: sql.Open succeeds; pingOK: the ping is answered within 5 seconds.
openDB(c, openOK, pingOK) ==
    IF ~openOK THEN [db |-> "none", err |-> "sql: unknown driver"]
    ELSE IF ~ValidDuration(c.maxIdleTime)
    THEN [db |-> "open", err |-> "time: invalid duration"]
    ELSE IF ~pingOK THEN [db |-> "open", err |-> "context deadline exceeded"]
    ELSE [db |-> "pinged", err |-> ErrNil]

\* db, err := openDB(cfg); if err != nil { logger.PrintFatal(err, nil) };
\* defer db.Close()
OpenDB(openOK, pingOK) ==
    /\ pc = "openDB"
    /\ LET r == openDB(cfg, openOK, pingOK)
       IN /\ db' = r.db
          /\ openErr' = r.err
          /\ IF r.err # ErrNil THEN PrintFatal
                               ELSE pc' = "serve" /\ UNCHANGED exitCode
    /\ UNCHANGED <<cfg, serve, serveErr, notMain>>

\* app := &Application{...}; err = app.Serve()
CallServe ==
    /\ pc = "serve"
    /\ serve' = "running"
    /\ pc' = "serving"
    /\ UNCHANGED <<cfg, db, openErr, serveErr, exitCode, notMain>>

\* app.Serve() returns: nil after a clean drain, an error otherwise.
ServeReturns(err) ==
    /\ pc = "serving"
    /\ serve' = "returned"
    /\ serveErr' = err
    /\ pc' = "afterServe"
    /\ UNCHANGED <<cfg, db, openErr, exitCode, notMain>>

\* if err != nil { logger.PrintFatal(err, nil) }; main returns, the deferred
\* db.Close() runs and the process ends with status 0.
AfterServe ==
    /\ pc = "afterServe"
    /\ IF serveErr # ErrNil
       THEN PrintFatal /\ UNCHANGED db
       ELSE db' = "closed" /\ pc' = "exited" /\ exitCode' = 0
    /\ UNCHANGED <<cfg, openErr, serve, serveErr, notMain>>

\* ================================================================== storage calls
\* The goroutines that call the models.
Goroutines == {1, 2}

PermissionOps == {"PermissionModel.GetAllForUser", "PermissionModel.AddForUser"}
MovieOps == {"MovieModel.Insert", "MovieModel.Get", "MovieModel.Update",
             "MovieModel.Delete"}
StorageOps == PermissionOps \cup MovieOps

\* context.WithTimeout(context.Background(), 3*time.Second), in seconds.
QueryTimeout == 3

ErrDeadlineExceeded == "context deadline exceeded"

\* Whether the method hands the driver a context with a deadline: the
\* PermissionModel calls QueryContext / ExecContext with one; the MovieModel
\* calls QueryRow / Exec, which run under context.Background().
HasDeadline(op) == op \in PermissionOps

IdleCall == [op |-> "none", state |-> "idle", err |-> ErrNil,
             deadline |-> FALSE, elapsed |-> 0]

CallInit ==
    /\ dbAnswers = TRUE
    /\ calls = [g \in Goroutines |-> IdleCall]

\* The database either answers every statement or none.
CallInitAnyDB ==
    /\ dbAnswers \in BOOLEAN
    /\ calls = [g \in Goroutines |-> IdleCall]

\* The method sends its statement and waits for the driver.
StartCall(g, op) ==
    /\ calls[g].state = "idle"
    /\ calls' = [calls EXCEPT ![g] =
                    [op |-> op, state |-> "waiting", err |-> ErrNil,
                     deadline |-> HasDeadline(op), elapsed |-> 0]]
    /\ UNCHANGED <<dbAnswers, notCall>>

\* A second passes on the timer of a context with a deadline.
Tick(g) ==
    /\ calls[g].state = "waiting"
    /\ calls[g].deadline
    /\ calls[g].elapsed < QueryTimeout
    /\ calls' = [calls EXCEPT ![g].elapsed = @ + 1]
    /\ UNCHANGED <<dbAnswers, notCall>>

\* The context's deadline passes: the driver gives up and the method returns
\* the context's error.
DeadlineExceeded(g) ==
    /\ calls[g].state = "waiting"
    /\ calls[g].deadline
    /\ calls[g].elapsed = QueryTimeout
    /\ calls' = [calls EXCEPT ![g].state = "returned",
                              ![g].err = ErrDeadlineExceeded]
    /\ UNCHANGED <<dbAnswers, notCall>>

\* The database answers and the method returns.
DbAnswers(g) ==
    /\ dbAnswers
    /\ calls[g].state = "waiting"
    /\ calls' = [calls EXCEPT ![g].state = "returned"]
    /\ UNCHANGED <<dbAnswers, notCall>>

\* The caller goes on; the goroutine is free for another call.
CallDone(g) ==
    /\ calls[g].state = "returned"
    /\ calls' = [calls EXCEPT ![g] = IdleCall]
    /\ UNCHANGED <<dbAnswers, notCall>>

\* ---------------------------------------------------------- specification
\* The MovieModel under concurrent callers.
Init == MovieInit /\ PermIdle /\ MainInit /\ CallInit

Next ==
    \/ \E c \in Clients, in \in MovieInputs : Insert(c, in)
    \/ \E c \in Clients, id \in IDs : Get(c, id)
    \/ \E c \in Clients, in \in MovieInputs : Update(c, in)
    \/ \E c \in Clients, id \in IDs : Delete(c, id)

Spec == Init /\ [][Next]_vars

\* Permissions and the PermissionModel.
InitPerm == PermInit /\ MovieInit /\ MainInit /\ CallInit

NextPerm ==
    \/ \E code \in Codes : CallInclude(code)
    \/ \E u \in UserIDs : GetAllForUser(u)
    \/ \E u \in UserIDs, codes \in SUBSET Codes : AddForUser(u, codes)

SpecPerm == InitPerm /\ [][NextPerm]_vars

\* The process from start to exit.
ServeErrors == {ErrNil, "http: Server closed with error"}

InitMain == MainInit /\ MovieInit /\ PermIdle /\ CallInit

NextMain ==
    \/ \E ok \in BOOLEAN : LoadEnv(ok)
    \/ \E ok, enabled, displayVersion \in BOOLEAN, rps \in RpsValues,
          burst \in BurstValues, idle \in IdleTimes :
          ParseFlags(ok, rps, burst, enabled, idle, displayVersion)
    \/ \E openOK, pingOK \in BOOLEAN : OpenDB(openOK, pingOK)
    \/ CallServe
    \/ \E err \in ServeErrors : ServeReturns(err)
    \/ AfterServe

SpecMain == InitMain /\ [][NextMain]_vars

\* Storage calls against a database that may never answer. Timers run, the
\* driver honours a context's deadline and a database that answers does so:
\* each is weakly fair.
InitCalls == CallInitAnyDB /\ MovieInit /\ PermIdle /\ MainInit

NextCalls ==
    \/ \E g \in Goroutines, op \in StorageOps : StartCall(g, op)
    \/ \E g \in Goroutines : Tick(g)
    \/ \E g \in Goroutines : DeadlineExceeded(g)
    \/ \E g \in Goroutines : DbAnswers(g)
    \/ \E g \in Goroutines : CallDone(g)

SpecCalls ==
    /\ InitCalls
    /\ [][NextCalls]_vars
    /\ \A g \in Goroutines :
          /\ WF_vars(Tick(g))
          /\ WF_vars(DeadlineExceeded(g))
          /\ WF_vars(DbAnswers(g))
          /\ WF_vars(CallDone(g))

\* ==================================================================
\* Properties of the MovieModel, checked under Spec.

\* The error the specification names for a version mismatch; no value of the
\* code stands for it.
ErrEditConflict == "edit conflict"

\* The call that has just returned, in a step of the MovieModel.
Returns(c, op) == last' # last /\ last'.c = c /\ last'.op = op

\* C1: when two callers have both read a record at version V and both call
\* Update, exactly one Update succeeds and leaves the record at version V+1;
\* the other fails with an edit conflict and changes nothing. As a property of
\* steps: caller c holds the record at the version V another caller has just
\* updated it from, and c's Update runs next.
C1_ConcurrentUpdateOneWins ==
    [][\A c \in Clients :
          ( /\ last.op = "Update" /\ last.err = ErrNil /\ last.c # c
            /\ last.pre = last.presented
            /\ movie[c].ID = last.id /\ movie[c].Version = last.presented
            /\ Returns(c, "Update") )
          => ( /\ last'.err = ErrEditConflict
               /\ last'.same
               /\ last'.post = last.presented + 1 )]_vars

\* C2: an Update that presents a version other than the stored one returns an
\* error and leaves the stored row as it was; an Update returns nil only if a
\* row matches the id and the presented version.
C2_StaleUpdateRejected ==
    last.op = "Update" =>
        /\ (last.pre # 0 /\ last.presented # last.pre) =>
               (last.err # ErrNil /\ last.same)
        /\ last.err = ErrNil => (last.pre # 0 /\ last.presented = last.pre)

\* C3: a row's version is 1 after Insert; an Update that returns nil raises the
\* stored version by exactly 1 and writes it into the caller's movie.Version;
\* Get, a failed Update and a Delete of another id leave every version as it
\* was; so a row that k Updates have succeeded on is at version 1 + k.
C3_VersionCountsUpdates ==
    /\ \A id \in DOMAIN movies : movies[id].version = 1 + updates[id]
    /\ last.op = "Insert" =>
           (last.pre = 0 /\ last.post = 1 /\ movie[last.c].Version = 1)
    /\ (last.op = "Update" /\ last.err = ErrNil) =>
           (last.post = last.pre + 1 /\ movie[last.c].Version = last.post)
    /\ (last.op = "Get" \/ (last.op = "Update" /\ last.err # ErrNil)) =>
           last.post = last.pre
    /\ last.frame

C3_Witness ==
    /\ last.op = "Update" /\ last.err = ErrNil
    /\ last.id \in DOMAIN movies
    /\ updates[last.id] = 2 /\ movies[last.id].version = 3
    /\ \E id \in DOMAIN movies : id # last.id /\ movies[id].version = 1

\* C4: an Update that updates no row tells the two causes apart: ErrRecordNotFound
\* for an id with no row, an edit conflict for a row at another version.
C4_ZeroRowsDistinguished ==
    last.op = "Update" =>
        /\ last.pre = 0 => last.err = ErrRecordNotFound
        /\ (last.pre # 0 /\ last.presented # last.pre) => last.err = ErrEditConflict

\* C10: Delete(id) returns ErrRecordNotFound exactly when id < 1 or no row has
\* that id, and otherwise removes that row alone and returns nil; Get(id)
\* returns ErrRecordNotFound for id < 1 and for an id with no row. So after a
\* Delete(id) that returned nil, Get(id) returns ErrRecordNotFound and no other
\* Delete(id) returns nil, be it later or concurrent.
C10_NotFoundReporting ==
    /\ last.op = "Delete" =>
           /\ last.err = ErrRecordNotFound <=> (last.id < 1 \/ last.pre = 0)
           /\ last.err # ErrRecordNotFound =>
                  (last.err = ErrNil /\ last.post = 0 /\ last.frame)
           /\ last.err = ErrRecordNotFound => (last.same /\ last.frame)
    /\ last.op = "Get" =>
           ((last.id < 1 \/ last.pre = 0) => last.err = ErrRecordNotFound)
    /\ \A id \in 1..MaxID :
           /\ deletes[id] <= 1
           /\ deletes[id] = 1 =>
                  /\ id \notin DOMAIN movies
                  /\ (last.op = "Get" /\ last.id = id) => last.err = ErrRecordNotFound

\* A second Delete of an id, by the other caller, has just returned
\* ErrRecordNotFound while another row is still stored.
C10_Witness ==
    /\ last.op = "Delete" /\ last.err = ErrRecordNotFound /\ last.id >= 1
    /\ deletes[last.id] = 1
    /\ DOMAIN movies # {}

\* C11: Get changes no stored row; Update and Delete change at most the row
\* whose id they name and leave every other row's fields and version as they
\* were; an Update or Delete that returns an error, also for an id with no row,
\* leaves the whole table as it was, and such an Update leaves the caller's
\* movie.Version as it was.
C11_MovieFrame ==
    /\ last.op = "Get" => (last.same /\ last.frame)
    /\ last.op \in {"Update", "Delete"} =>
           /\ last.frame
           /\ last.err # ErrNil => last.same
    /\ (last.op = "Update" /\ last.err # ErrNil) =>
           movie[last.c].Version = last.presented

\* An Update of an id whose row another caller has deleted has just returned
\* an error, while another row, once updated, is stored.
C11_Witness ==
    /\ last.op = "Update" /\ last.err # ErrNil
    /\ last.id >= 1 /\ deletes[last.id] = 1
    /\ movie[last.c].Version >= 1
    /\ \E id \in DOMAIN movies : id # last.id /\ movies[id].version = 2

\* A Delete has just removed one row while another row, once updated, is
\* stored.
C11_WitnessDelete ==
    /\ last.op = "Delete" /\ last.err = ErrNil
    /\ \E id \in DOMAIN movies : id # last.id /\ movies[id].version = 2

\* ==================================================================
\* Properties of Permissions and the PermissionModel, checked under SpecPerm.

\* The codes that are elements of a Permissions slice.
Elements(ps) == { ps.elems[i] : i \in 1..Len(ps.elems) }

\* C5: Include(c) on a permission list p is true if and only if c is an element
\* of p: false for the empty (and the nil) list, whatever c's position and
\* however often it occurs.
C5_IncludeIsMembership ==
    plast.op = "Include" => (plast.found <=> plast.code \in Elements(perms))

\* Include has found a code that is only the last of three elements, and the
\* first element occurs twice.
C5_Witness ==
    /\ plast.op = "Include" /\ plast.found
    /\ Len(perms.elems) = 3
    /\ perms.elems[3] = plast.code
    /\ perms.elems[1] = perms.elems[2] /\ perms.elems[1] # plast.code

\* The codes the users_permissions table joins to user u now.
CodesJoinedTo(u) ==
    { r.code : r \in { x \in PermissionRows : <<u, x.id>> \in usersPermissions } }

\* C6: GetAllForUser(u) returns the codes the tables join to u at the time of
\* the call, each once, in a list that is not nil even when it is empty; every
\* code a successful AddForUser(u, ...) has granted is among them; and
\* AddForUser(u, ...) changes the codes of no other user.
C6_GetAllForUserIsCurrent ==
    /\ plast.op = "GetAllForUser" =>
           /\ plast.err = ErrNil
           /\ ~perms.isNil
           /\ Elements(perms) = CodesJoinedTo(plast.user)
           /\ Len(perms.elems) = Cardinality(CodesJoinedTo(plast.user))
           /\ granted[plast.user] \subseteq Elements(perms)
    /\ plast.op = "AddForUser" => plast.others
    /\ \A u \in UserIDs : granted[u] = CodesJoinedTo(u)

\* GetAllForUser has returned both codes for one user while the other user
\* holds one code only.
C6_Witness ==
    /\ plast.op = "GetAllForUser"
    /\ Len(perms.elems) = 2
    /\ \E v \in Users : v # plast.user /\ Cardinality(CodesJoinedTo(v)) = 1

\* ==================================================================
\* Properties of the process, checked under SpecMain.

\* C8: main reaches app.Serve() only with a rate-limit configuration of
\* rps > 0 and burst >= 1; with any other the process stops before serving.
C8_LimiterConfigValidated ==
    serve # "no" => (cfg.rps > 0 /\ cfg.burst >= 1)

\* C9: main calls app.Serve() only after openDB has returned a pinged pool
\* without error; when Serve returns nil the process exits with status 0 and
\* the pool closed; when openDB or Serve returns an error the process exits
\* with a status other than 0; the pool is not closed before Serve has returned.
C9_ExitStatusAndOrder ==
    /\ serve # "no" => (openErr = ErrNil /\ db \in {"pinged", "closed"})
    /\ serve = "running" => db = "pinged"
    /\ db = "closed" => (serve = "returned" /\ serveErr = ErrNil)
    /\ (pc = "exited" /\ serve = "returned" /\ serveErr = ErrNil) =>
           (exitCode = 0 /\ db = "closed")
    /\ (pc = "exited" /\ (openErr # ErrNil \/ serveErr # ErrNil)) =>
           (exitCode # 0 /\ exitCode # Running)
    /\ exitCode # Running <=> pc = "exited"

\* The process has exited with status 0 after Serve returned nil.
C9_Witness ==
    /\ pc = "exited" /\ exitCode = 0
    /\ serve = "returned" /\ serveErr = ErrNil
    /\ db = "closed"

\* ==================================================================
\* Properties of the storage calls, checked under SpecCalls.

\* C7: when the database never answers, every storage call (GetAllForUser,
\* AddForUser, Insert, Get, Update, Delete) that is waiting eventually returns
\* with a timeout error.
C7_StorageCallsTimeOut ==
    \A g \in Goroutines, op \in StorageOps :
        (~dbAnswers /\ calls[g].state = "waiting" /\ calls[g].op = op)
            ~> (calls[g].state = "returned" /\ calls[g].op = op
                /\ calls[g].err = ErrDeadlineExceeded)

\* The same of the PermissionModel's two methods alone.
PermissionCallsTimeOut ==
    \A g \in Goroutines, op \in PermissionOps :
        (~dbAnswers /\ calls[g].state = "waiting" /\ calls[g].op = op)
            ~> (calls[g].state = "returned" /\ calls[g].op = op
                /\ calls[g].err = ErrDeadlineExceeded)

====
